---- MODULE Spec2Model ----
(***************************************************************************)
(* MercerChat backend (app/main.py): the /chat handler, the ingestion of   *)
(* an uploaded PDF into the bucket (process_pdf_to_gcs) and the call of    *)
(* the GPU backend with the enrichment of its answer (call_gpu_backend).   *)
(*                                                                         *)
(* Python strings are sequences of tokens.  A string the program formats   *)
(* or takes apart (keys, ids, page numbers, OCR text) is a sequence of     *)
(* one-character tokens; a literal it only passes along is one token.      *)
(* The bucket, the OCR engine, the PDF renderer, the file system and the   *)
(* GPU backend are the environment: each call of them succeeds or raises,  *)
(* chosen nondeterministically where the code cannot decide it.            *)
(***************************************************************************)
EXTENDS Integers, Sequences, FiniteSets, TLC

\* ------------------------------------------------------------------ bounds
\* Pages of the largest uploaded document.
MaxPages == 2
\* Distinct values make_doc_id can return.
NumDocIds == 2
\* Documents already ingested into the bucket when the process starts.
MaxPrior == 1
\* Longest pages_used list the GPU backend returns.
MaxUsed == 2
\* Failures of the environment (bucket, OCR, file system, GPU backend) in one
\* request.
MaxFaults == 2

\* ------------------------------------------------------- program constants
\* uuid4().hex[:16]
DocIdLen == 16
\* SIGNED_URL_TTL_MIN default
SIGNED_URL_TTL_MIN == 15

\* --------------------------------------------------------- Python values
\* None, and a value that is not a str (an int in a JSON list).
PyNone == <<"<None>">>
PyInt == <<"<int>">>
NonStr == {PyNone, PyInt}
\* isinstance(v, str)
IsStr(v) == v \notin NonStr
\* truthiness of a str-or-None value: None and "" are falsy
Truthy(v) == v /= PyNone /\ v /= <<>>
\* dict.get(f) with the default None
Get(d, f) == IF f \in DOMAIN d THEN d[f] ELSE PyNone
\* d[f] = v  (item assignment on a dict)
\* A faulty variant: the body is replaced by a new dict of the one field
SetItem_new_dict(d, f, v) == (f :> v)

SetItem(d, f, v) == (f :> v) @@ d

Digits == <<"0", "1", "2", "3", "4", "5", "6", "7", "8", "9">>
HexDigits == <<"0", "1", "2", "3", "4", "5", "6", "7", "8", "9", "a", "b", "c", "d", "e", "f">>

\* str(i) of a non-negative int
RECURSIVE str(_)
str(n) ==
  IF n < 10 THEN <<Digits[n + 1]>>
  ELSE str(n \div 10) \o <<Digits[(n % 10) + 1]>>

\* The n-th value of the pool make_doc_id draws from: 16 hex digits.
DocIdOf(n) ==
  [j \in 1..DocIdLen |-> IF j = DocIdLen THEN HexDigits[(n % 16) + 1] ELSE "0"]
DocIds == {DocIdOf(n) : n \in 0..(NumDocIds - 1)}

\* ------------------------------------------------------------ artifact keys
\* f"pdfs/{conv}/{doc_id}.pdf"
pdf_key(conv, doc_id) ==
  <<"p", "d", "f", "s", "/">> \o conv \o <<"/">> \o doc_id \o <<".", "p", "d", "f">>

\* A faulty variant: the doc_id is left out of the page-image key
img_key_without_doc(conv, doc_id, i) ==
  <<"p", "a", "g", "e", "s", "/">> \o conv
    \o <<"/", "p", "a", "g", "e", "_">> \o str(i) \o <<".", "p", "n", "g">>

\* f"pages/{conv}/{doc_id}/page_{i}.png"
img_key(conv, doc_id, i) ==
  <<"p", "a", "g", "e", "s", "/">> \o conv \o <<"/">> \o doc_id
    \o <<"/", "p", "a", "g", "e", "_">> \o str(i) \o <<".", "p", "n", "g">>

\* f"text/{conv}/{doc_id}/page_{i}.txt"
txt_key(conv, doc_id, i) ==
  <<"t", "e", "x", "t", "/">> \o conv \o <<"/">> \o doc_id
    \o <<"/", "p", "a", "g", "e", "_">> \o str(i) \o <<".", "t", "x", "t">>

\* conversation_id or "no-conv"
NoConv == <<"n", "o", "-", "c", "o", "n", "v">>
conv_or_default(conversation_id) ==
  IF Truthy(conversation_id) THEN conversation_id ELSE NoConv

\* --------------------------------------------------------------- metadata
\* _now_iso(): the clock is not modelled, every timestamp is one token.
now_iso == <<"<now>">>
TESS_VERSION == <<"<tesseract version>">>
OCR_LANG == <<"eng">>

\* metadata of the original PDF
pdf_meta(conv, doc_id, safe_name) ==
  [original_filename |-> safe_name, conversation_id |-> conv,
   doc_id |-> doc_id, uploaded_at |-> now_iso]

\* A faulty variant: the page number is taken 0-based
page_meta_zero_based(conv, doc_id, i, pdfkey, safe_name) ==
  [conversation_id |-> conv, doc_id |-> doc_id, page_number |-> str(i - 1),
   source_pdf_key |-> pdfkey, original_filename |-> safe_name]

\* meta of page i
page_meta(conv, doc_id, i, pdfkey, safe_name) ==
  [conversation_id |-> conv, doc_id |-> doc_id, page_number |-> str(i),
   source_pdf_key |-> pdfkey, original_filename |-> safe_name]

\* A faulty variant: source_image_key is given the key of the PDF
text_meta_source_is_pdf(meta, imgkey) ==
  [source_image_key |-> meta.source_pdf_key, ocr_engine |-> <<"tesseract">>,
   ocr_version |-> TESS_VERSION, ocr_lang |-> OCR_LANG, ocr_at |-> now_iso,
   content_type |-> <<"text/plain; charset=utf-8">>] @@ meta

\* txt_meta = {**meta, ...}: the later keys win
text_meta(meta, imgkey) ==
  [source_image_key |-> imgkey, ocr_engine |-> <<"tesseract">>,
   ocr_version |-> TESS_VERSION, ocr_lang |-> OCR_LANG, ocr_at |-> now_iso,
   content_type |-> <<"text/plain; charset=utf-8">>] @@ meta

\* png_bytes_with_meta(img, meta): the page's pixels with meta as text chunks
png_bytes_with_meta(img, meta) == [image |-> img, pnginfo |-> meta]

\* ------------------------------------------------------------------- OCR
CR == "\\r"
LF == "\\n"
Whitespace == {" ", CR, LF}

\* txt.replace("\r\n", "\n")
RECURSIVE replace_crlf(_)
replace_crlf(s) ==
  IF Len(s) = 0 THEN <<>>
  ELSE IF Len(s) >= 2 /\ s[1] = CR /\ s[2] = LF
    THEN <<LF>> \o replace_crlf(SubSeq(s, 3, Len(s)))
    ELSE <<s[1]>> \o replace_crlf(Tail(s))

\* txt.replace("\r", "\n")
replace_cr(s) == [j \in 1..Len(s) |-> IF s[j] = CR THEN LF ELSE s[j]]

\* txt.strip()
RECURSIVE lstrip(_)
lstrip(s) ==
  IF Len(s) > 0 /\ s[1] \in Whitespace THEN lstrip(Tail(s)) ELSE s
RECURSIVE rstrip(_)
rstrip(s) ==
  IF Len(s) > 0 /\ s[Len(s)] \in Whitespace
    THEN rstrip(SubSeq(s, 1, Len(s) - 1)) ELSE s
strip(s) == lstrip(rstrip(s))

\* What pytesseract.image_to_string returns for a page, before normalising:
\* lines ended "\r\n" and "\r", with blanks around.
OcrRawPool == { <<" ", "a", CR, LF, "b", CR, "c", " ", LF>> }

\* ocr_image_to_text(img) when tesseract answers `raw`
ocr_image_to_text(raw) == strip(replace_cr(replace_crlf(raw)))

\* (ocr_text or "").encode("utf-8"): the text is ASCII, its bytes are its
\* characters
encode_text(ocr_text) == IF Truthy(ocr_text) THEN ocr_text ELSE <<>>

\* ------------------------------------------------------------- documents
\* An uploaded file: no bytes, bytes that are no PDF, or a PDF of n pages.
PdfOf(n) == <<"%PDF">> \o [j \in 1..n |-> "page"]
FilePool == { <<>>, <<"junk">> } \cup { PdfOf(n) : n \in 0..MaxPages }

\* convert_from_bytes raises on bytes that are no PDF
Renders(raw) == Len(raw) >= 1 /\ raw[1] = "%PDF"
\* pil_images_from_pdf_bytes(raw): one image per page, in page order
pil_images_from_pdf_bytes(raw) == Tail(raw)


\* ----------------------------------------------------------------- bucket
PutOutcomes == {"ok", "upload_failed", "sign_failed"}

\* blob.metadata of an object stored without metadata (None): no field
NoMetadata == <<>>

\* An object of the bucket, as blob.upload_from_string leaves it
\* (`if metadata: blob.metadata = metadata`).
Blob(data, content_type, metadata) ==
  [data |-> data, content_type |-> content_type,
   metadata |-> IF DOMAIN metadata /= {} THEN metadata ELSE NoMetadata]

\* The bucket after gcs_put_and_sign(key, ...): the upload comes first, the
\* signing of the URL second; when the upload raises nothing is stored, when
\* the signing raises the object is stored already.
bucket_after_put(bucket, key, data, content_type, metadata, outcome) ==
  IF outcome = "upload_failed" THEN bucket
  ELSE (key :> Blob(data, content_type, metadata)) @@ bucket

\* A faulty variant: gcs_put_and_sign logs its failure and returns
put_raises_never(outcome) == FALSE

\* gcs_put_and_sign raises unless both calls succeed
put_raises(outcome) == outcome /= "ok"

\* blob.generate_signed_url(expiration=timedelta(minutes=TTL), method="GET")
signed_url(key) == [key |-> key, method |-> "GET", minutes |-> SIGNED_URL_TTL_MIN]

\* The record kept of one stored artifact: which ingestion wrote which
\* logical artifact to which key.
Written(key, kind, page, ingestion, conv, docid, name) ==
  [key |-> key, kind |-> kind, page |-> page, ingestion |-> ingestion,
   conv |-> conv, doc_id |-> docid, name |-> name]

\* ------------------------------------------- the bucket at process start
NameA == <<"a.pdf">>
NameB == <<"b.pdf">>
NamePool == {NameA, NameB}
ConvC == <<"c">>
\* conversation ids of a request: blank, plain, and one holding '/' followed
\* by what could be a doc_id
ConvPool == { <<>>, ConvC, ConvC \o <<"/">> \o DocIdOf(0) }
HumanPool == { <<"hi">> }

\* The artifacts process_pdf_to_gcs stores for a document of n pages when
\* nothing fails, as (key, kind, page, blob) records, in upload order.
ArtifactsOf(conversation_id, docid, safe_name, n, raw_text) ==
  LET conv == conv_or_default(conversation_id)
      pk == pdf_key(conv, docid)
      Page(j) == (j + 1) \div 2
      Art(j) ==
        LET p == Page(j)
            meta == page_meta(conv, docid, p, pk, safe_name)
        IN IF j % 2 = 1
             THEN [key |-> img_key(conv, docid, p), kind |-> "image", page |-> p,
                   blob |-> Blob(png_bytes_with_meta("page", meta), "image/png", meta)]
             ELSE [key |-> txt_key(conv, docid, p), kind |-> "text", page |-> p,
                   blob |-> Blob(encode_text(ocr_image_to_text(raw_text)),
                                 "text/plain; charset=utf-8",
                                 text_meta(meta, img_key(conv, docid, p)))]
  IN <<[key |-> pk, kind |-> "pdf", page |-> 0,
        blob |-> Blob(PdfOf(n), "application/pdf", pdf_meta(conv, docid, safe_name))]>>
       \o [j \in 1..(2 * n) |-> Art(j)]

\* Earlier ingestions the bucket may hold: one-page documents named NameA.
PriorPool ==
  { [conversation_id |-> c, doc_id |-> DocIdOf(0), name |-> NameA, pages |-> 1]
      : c \in { <<>>, ConvC } }

PriorArtifacts(p) ==
  ArtifactsOf(p.conversation_id, p.doc_id, p.name, p.pages, <<"a">>)

\* An object some other program stored, without metadata.
ForeignKey == <<"misc/scan.png">>
ForeignObjects == (ForeignKey :> Blob(<<"bytes">>, "image/png", <<>>))

RECURSIVE BucketOf(_)
\* the bucket after the ingestions ps (a sequence), the last one written last
BucketOf(ps) ==
  IF Len(ps) = 0 THEN ForeignObjects
  ELSE LET arts == PriorArtifacts(ps[Len(ps)])
           mine == [k \in {arts[j].key : j \in 1..Len(arts)} |->
                      (CHOOSE a \in {arts[j] : j \in 1..Len(arts)} : a.key = k).blob]
       IN mine @@ BucketOf(SubSeq(ps, 1, Len(ps) - 1))

WrittenOf(ps) ==
  UNION { LET arts == PriorArtifacts(ps[n])
          IN { Written(arts[j].key, arts[j].kind, arts[j].page, n,
                       conv_or_default(ps[n].conversation_id), ps[n].doc_id,
                       ps[n].name)
                 : j \in 1..Len(arts) }
          : n \in 1..Len(ps) }


\* ------------------------------------------------------------------ state
VARIABLES
  GPU_BACKEND_URL,  \* os.getenv("GPU_BACKEND_URL"): None, "" or the URL
  bucket,           \* gcs_bucket: key -> blob
  written,          \* every artifact stored so far, by whom (history)
  pc,               \* where the /chat request is
  request,          \* the form fields of the request
  tmp,              \* the temporary file: tmp_path bound? file on disk?
  ing,              \* the locals of process_pdf_to_gcs
  puts,             \* the gcs_put_and_sign calls of this request, in order
  exc,              \* the exception in flight
  doc_id,           \* chat's doc_id
  gpu,              \* the locals of call_gpu_backend
  calls,            \* the outbound calls of call_gpu_backend, in order
  response,         \* what the caller of /chat gets
  faults            \* failures of the environment so far

vars ==
  <<GPU_BACKEND_URL, bucket, written, pc, request, tmp, ing, puts, exc,
    doc_id, gpu, calls, response, faults>>

\* The environment may fail once more.
CanFail == faults < MaxFaults
\* The count of failures after a call that went well (ok) or failed.
faults_after(ok) == IF ok THEN faults ELSE faults + 1

NoExc == [type |-> "none", status_code |-> 0, detail |-> "none"]
\* raise HTTPException(status_code=..., detail=...)
HTTPException(status_code, detail) ==
  [type |-> "HTTPException", status_code |-> status_code, detail |-> detail]
\* any other exception, raised by `origin`
Raised(origin) == [type |-> "Exception", status_code |-> 0, detail |-> origin]

NoRequest ==
  [human |-> <<>>, conversation_id |-> <<>>, pdf_file |-> FALSE,
   content |-> <<>>, original_filename |-> <<>>]
\* process_pdf_to_gcs has not returned
NoResult ==
  [conversation_id |-> PyNone, doc_id |-> PyNone, pdf_key |-> PyNone,
   pages_count |-> -1]
NoIng ==
  [conv |-> PyNone, doc_id |-> PyNone, safe_name |-> PyNone, raw |-> <<>>,
   pdf_key |-> PyNone, pil_pages |-> <<>>, rendered |-> FALSE, i |-> 0,
   ocr_text |-> PyNone, ocr_failed |-> {}, result |-> NoResult]
NoGpu ==
  [post |-> "none", answer |-> PyNone, body |-> PyNone, pages_used |-> PyNone,
   k |-> 0, signed_urls |-> <<>>, page_info_list |-> <<>>]
NoResponse == [status |-> 0, body |-> PyNone]
\* no temporary file: tmp_path is unbound, no file on disk, os.remove not called
NoTmp == [bound |-> FALSE, exists |-> FALSE, content |-> <<>>, remove |-> "none"]

\* The ingestion number of the request (those of the bucket's earlier content
\* are 1, 2, ...).
ThisIngestion == 0

GpuUrlPool == { PyNone, <<>>, <<"http://gpu">> }

Init ==
  /\ GPU_BACKEND_URL \in GpuUrlPool
  /\ \E n \in 0..MaxPrior :
       \E ps \in [1..n -> PriorPool] :
         /\ \A a, b \in 1..n : a /= b => ps[a] /= ps[b]
         /\ bucket = BucketOf(ps)
         /\ written = WrittenOf(ps)
  /\ pc = "idle"
  /\ request = NoRequest
  /\ tmp = NoTmp
  /\ ing = NoIng
  /\ puts = <<>>
  /\ exc = NoExc
  /\ doc_id = PyNone
  /\ gpu = NoGpu
  /\ calls = <<>>
  /\ response = NoResponse
  /\ faults = 0

\* ------------------------------------------------------------------- chat
\* POST /chat arrives: doc_id = None; `if pdf_file:`
ChatReceive ==
  /\ pc = "idle"
  /\ \E h \in HumanPool, c \in ConvPool, f \in BOOLEAN, name \in NamePool :
       \E content \in (IF f THEN FilePool ELSE {<<>>}) :
         request' = [human |-> h, conversation_id |-> c, pdf_file |-> f,
                     content |-> content,
                     original_filename |-> IF f THEN name ELSE <<>>]
  /\ doc_id' = PyNone
  /\ pc' = IF request'.pdf_file THEN "mktemp" ELSE "call_gpu"
  /\ UNCHANGED <<GPU_BACKEND_URL, bucket, written, tmp, ing, puts, exc, gpu,
                 calls, response, faults>>

\* tempfile.NamedTemporaryFile(delete=False, suffix=suffix); tmp_path = tmp.name
TmpCreate ==
  /\ pc = "mktemp"
  /\ \E ok \in BOOLEAN :
       /\ ok \/ CanFail
       /\ faults' = faults_after(ok)
       /\ IF ok
         THEN /\ tmp' = [tmp EXCEPT !.bound = TRUE, !.exists = TRUE]
              /\ pc' = "tmp_write"
              /\ exc' = exc
         ELSE /\ tmp' = tmp
              /\ exc' = Raised("NamedTemporaryFile")
              /\ pc' = "finally"
  /\ UNCHANGED <<GPU_BACKEND_URL, bucket, written, request, ing, puts, doc_id,
                 gpu, calls, response>>

\* content = await pdf_file.read(); tmp.write(content); the file is closed
TmpWrite ==
  /\ pc = "tmp_write"
  /\ \E ok \in BOOLEAN :
       /\ ok \/ CanFail
       /\ faults' = faults_after(ok)
       /\ IF ok
         THEN /\ tmp' = [tmp EXCEPT !.content = request.content]
              /\ pc' = "read_file"
              /\ exc' = exc
         ELSE /\ tmp' = tmp
              /\ exc' = Raised("tmp.write")
              /\ pc' = "finally"
  /\ UNCHANGED <<GPU_BACKEND_URL, bucket, written, request, ing, puts, doc_id,
                 gpu, calls, response>>

\* ----------------------------------------------------- process_pdf_to_gcs
\* make_doc_id(): uuid4().hex[:16], any value of the pool
make_doc_id == DocIds

\* A faulty variant: the emptiness check is missing
is_empty_never(raw) == FALSE

\* `if not raw:`
is_empty(raw) == raw = <<>>

\* conv, doc_id, safe_name; open(file_path).read(); `if not raw`
ReadFile ==
  /\ pc = "read_file"
  /\ \E d \in make_doc_id, readable \in BOOLEAN :
       LET raw == tmp.content
           conv == conv_or_default(request.conversation_id)
       IN /\ readable \/ CanFail
          /\ faults' = faults_after(readable)
          /\ ing' = [NoIng EXCEPT !.conv = conv, !.doc_id = d,
                                  !.safe_name = request.original_filename,
                                  !.raw = IF readable THEN raw ELSE <<>>]
          /\ IF ~readable
               THEN /\ exc' = HTTPException(400, "Could not read file")
                    /\ pc' = "finally"
               ELSE IF is_empty(raw)
                 THEN /\ exc' = HTTPException(400, "File is empty.")
                      /\ pc' = "finally"
                 ELSE /\ exc' = exc
                      /\ pc' = "put_pdf"
  /\ UNCHANGED <<GPU_BACKEND_URL, bucket, written, request, tmp, puts, doc_id,
                 gpu, calls, response>>

\* One gcs_put_and_sign call of the ingestion, as the log keeps it.
PutCall(key, kind, page, data, outcome) ==
  [key |-> key, kind |-> kind, page |-> page, data |-> data, outcome |-> outcome]

\* The history after a put: an artifact is on record once it is stored.
written_after_put(key, kind, page, outcome) ==
  IF outcome = "upload_failed" THEN written
  ELSE written \cup {Written(key, kind, page, ThisIngestion, ing.conv,
                              ing.doc_id, ing.safe_name)}

\* pdf_key = f"pdfs/{conv}/{doc_id}.pdf"; gcs_put_and_sign(pdf_key, raw, ...)
UploadOriginal ==
  /\ pc = "put_pdf"
  /\ \E outcome \in PutOutcomes :
       LET key == pdf_key(ing.conv, ing.doc_id)
       IN /\ outcome = "ok" \/ CanFail
          /\ faults' = faults_after(outcome = "ok")
          /\ ing' = [ing EXCEPT !.pdf_key = key]
          /\ bucket' = bucket_after_put(bucket, key, ing.raw, "application/pdf",
                         pdf_meta(ing.conv, ing.doc_id, ing.safe_name), outcome)
          /\ written' = written_after_put(key, "pdf", 0, outcome)
          /\ puts' = Append(puts, PutCall(key, "pdf", 0, ing.raw, outcome))
          /\ IF put_raises(outcome)
               THEN /\ exc' = Raised("gcs_put_and_sign pdf")
                    /\ pc' = "finally"
               ELSE /\ exc' = exc
                    /\ pc' = "render"
  /\ UNCHANGED <<GPU_BACKEND_URL, request, tmp, doc_id, gpu, calls, response>>

\* pil_pages = pil_images_from_pdf_bytes(raw, dpi=400); the loop starts
RenderPages ==
  /\ pc = "render"
  /\ IF Renders(ing.raw)
       THEN LET pages == pil_images_from_pdf_bytes(ing.raw)
            IN /\ ing' = [ing EXCEPT !.pil_pages = pages, !.rendered = TRUE,
                                     !.i = 1]
               /\ exc' = exc
               /\ pc' = IF Len(pages) >= 1 THEN "put_img" ELSE "summary"
       ELSE /\ ing' = ing
            /\ exc' = Raised("convert_from_bytes")
            /\ pc' = "finally"
  /\ UNCHANGED <<GPU_BACKEND_URL, bucket, written, request, tmp, puts, doc_id,
                 gpu, calls, response, faults>>

\* meta of the page the loop is at
cur_meta == page_meta(ing.conv, ing.doc_id, ing.i, ing.pdf_key, ing.safe_name)

\* A faulty variant: the image upload is wrapped in try/except like the text upload
image_put_swallowed(outcome) == FALSE

\* gcs_put_and_sign(img_key, ...) stands in no try: what it raises leaves
\* process_pdf_to_gcs
image_put_propagates(outcome) == put_raises(outcome)

\* meta, png_bytes, img_key; gcs_put_and_sign(img_key, png_bytes, ...)
UploadPageImage ==
  /\ pc = "put_img"
  /\ \E outcome \in PutOutcomes :
       LET key == img_key(ing.conv, ing.doc_id, ing.i)
           data == png_bytes_with_meta(ing.pil_pages[ing.i], cur_meta)
       IN /\ outcome = "ok" \/ CanFail
          /\ faults' = faults_after(outcome = "ok")
          /\ bucket' = bucket_after_put(bucket, key, data, "image/png",
                                        cur_meta, outcome)
          /\ written' = written_after_put(key, "image", ing.i, outcome)
          /\ puts' = Append(puts, PutCall(key, "image", ing.i, data, outcome))
          /\ IF image_put_propagates(outcome)
               THEN /\ exc' = Raised("gcs_put_and_sign image")
                    /\ pc' = "finally"
               ELSE /\ exc' = exc
                    /\ pc' = "ocr"
  /\ UNCHANGED <<GPU_BACKEND_URL, request, tmp, ing, doc_id, gpu, calls,
                 response>>

\* A faulty variant: no try around ocr_image_to_text
ocr_failure_uncaught == FALSE

\* `except Exception as _e:` around ocr_image_to_text: the failure is caught
ocr_failure_caught == TRUE

\* try: ocr_text = ocr_image_to_text(img) / except Exception: ocr_text = ""
OcrPage ==
  /\ pc = "ocr"
  /\ \/ /\ \E raw \in OcrRawPool :
             ing' = [ing EXCEPT !.ocr_text = ocr_image_to_text(raw)]
        /\ faults' = faults
        /\ exc' = exc
        /\ pc' = "put_txt"
     \/ /\ CanFail
        /\ faults' = faults + 1
        /\ IF ocr_failure_caught
             THEN /\ ing' = [ing EXCEPT !.ocr_text = <<>>,
                                        !.ocr_failed = @ \cup {ing.i}]
                  /\ exc' = exc
                  /\ pc' = "put_txt"
             ELSE /\ ing' = [ing EXCEPT !.ocr_failed = @ \cup {ing.i}]
                  /\ exc' = Raised("OCR failed")
                  /\ pc' = "finally"
  /\ UNCHANGED <<GPU_BACKEND_URL, bucket, written, request, tmp, puts,
                 doc_id, gpu, calls, response>>

\* A faulty variant: the loop stops one page early
loop_next_short(i, n) == IF i + 1 < n THEN "put_img" ELSE "summary"

\* `for i, img in enumerate(pil_pages, start=1)`: after page i of n
loop_next(i, n) == IF i < n THEN "put_img" ELSE "summary"

\* A faulty variant: the text upload stands in no try, like the image upload
text_put_uncaught(outcome) == put_raises(outcome)

\* try: gcs_put_and_sign(txt_key, ...) / except Exception: log.  Nothing
\* the put raises leaves the try.
text_put_propagates(outcome) == FALSE

\* txt_meta, txt_key; try: gcs_put_and_sign(txt_key, ...) / except: log;
\* then the next page, or the end of the loop
UploadPageText ==
  /\ pc = "put_txt"
  /\ \E outcome \in PutOutcomes :
       LET key == txt_key(ing.conv, ing.doc_id, ing.i)
           data == encode_text(ing.ocr_text)
           meta == text_meta(cur_meta, img_key(ing.conv, ing.doc_id, ing.i))
       IN /\ outcome = "ok" \/ CanFail
          /\ faults' = faults_after(outcome = "ok")
          /\ bucket' = bucket_after_put(bucket, key, data,
                         "text/plain; charset=utf-8", meta, outcome)
          /\ written' = written_after_put(key, "text", ing.i, outcome)
          /\ puts' = Append(puts, PutCall(key, "text", ing.i, data, outcome))
          /\ IF text_put_propagates(outcome)
               THEN /\ exc' = Raised("gcs_put_and_sign text")
                    /\ ing' = ing
                    /\ pc' = "finally"
               ELSE /\ exc' = exc
                    /\ ing' = [ing EXCEPT !.i = @ + 1]
                    /\ pc' = loop_next(ing.i, Len(ing.pil_pages))
  /\ UNCHANGED <<GPU_BACKEND_URL, request, tmp, doc_id, gpu, calls, response>>

\* return {conversation_id, doc_id, pdf_key, pages_count}; back in chat:
\* doc_id = result["doc_id"]
ReturnSummary ==
  /\ pc = "summary"
  /\ ing' = [ing EXCEPT !.result =
               [conversation_id |-> ing.conv, doc_id |-> ing.doc_id,
                pdf_key |-> ing.pdf_key, pages_count |-> Len(ing.pil_pages)]]
  /\ doc_id' = ing.doc_id
  /\ pc' = "finally"
  /\ UNCHANGED <<GPU_BACKEND_URL, bucket, written, request, tmp, puts, exc,
                 gpu, calls, response, faults>>

\* A faulty variant: os.remove stands at the end of the try body, no finally
cleanup_on_success_only(e) == e = NoExc

\* `finally:` the cleanup runs whether or not an exception is in flight
cleanup_runs(e) == TRUE

\* finally: try: os.remove(tmp_path) / except Exception: pass.  os.remove may
\* fail and leave the file; with tmp_path unbound (the file was never
\* created) the NameError is swallowed as well.  Then the exception in
\* flight goes on to the caller, or chat goes on.
Cleanup ==
  /\ pc = "finally"
  /\ IF ~cleanup_runs(exc)
       THEN tmp' = tmp /\ faults' = faults
       ELSE IF tmp.bound
         THEN \E removed \in BOOLEAN :
                /\ removed \/ CanFail
                /\ faults' = faults_after(removed)
                /\ tmp' = [tmp EXCEPT !.exists = ~removed,
                              !.remove = IF removed THEN "removed" ELSE "failed"]
         ELSE /\ tmp' = [tmp EXCEPT !.remove = "unbound"]
              /\ faults' = faults
  /\ pc' = IF exc /= NoExc THEN "respond_error" ELSE "call_gpu"
  /\ UNCHANGED <<GPU_BACKEND_URL, bucket, written, request, ing, puts, exc,
                 doc_id, gpu, calls, response>>

\* The framework's answer to an exception leaving chat: an HTTPException
\* gives its status code, anything else is a 500.
status_of(e) == IF e.type = "HTTPException" THEN e.status_code ELSE 500

RespondError ==
  /\ pc = "respond_error"
  /\ response' = [status |-> status_of(exc), body |-> [detail |-> exc.detail]]
  /\ pc' = "done"
  /\ UNCHANGED <<GPU_BACKEND_URL, bucket, written, request, tmp, ing, puts,
                 exc, doc_id, gpu, calls, faults>>


\* -------------------------------------------------------- call_gpu_backend
StubAnswer == <<"(stub) GPU_BACKEND_URL not configured.">>

\* A faulty variant: `if GPU_BACKEND_URL is None:`
not_configured_is_none(url) == url = PyNone

\* `if not GPU_BACKEND_URL:`
not_configured(url) == ~Truthy(url)

\* `if not GPU_BACKEND_URL: return {...}`: chat returns the stub
CallGpuStub ==
  /\ pc = "call_gpu"
  /\ not_configured(GPU_BACKEND_URL)
  /\ response' = [status |-> 200,
                  body |-> [ai |-> StubAnswer,
                            conversation_id |-> request.conversation_id]]
  /\ pc' = "done"
  /\ UNCHANGED <<GPU_BACKEND_URL, bucket, written, request, tmp, ing, puts,
                 exc, doc_id, gpu, calls, faults>>

\* A faulty variant: the doc_id is left out of the payload
payload_without_doc(conversation_id, human, docid) ==
  [conversation_id |-> conversation_id, human |-> human]

\* payload = {"conversation_id", "human"}; `if doc_id: payload["doc_id"]`
payload_of(conversation_id, human, docid) ==
  IF Truthy(docid)
    THEN [conversation_id |-> conversation_id, human |-> human, doc_id |-> docid]
    ELSE [conversation_id |-> conversation_id, human |-> human]

\* JSON values of the field pages_used
\* (v is the list's items; a string is kept as the one item of v)
JsonNull == [t |-> "null", v |-> <<>>]
JsonStr(x) == [t |-> "str", v |-> <<x>>]
JsonList(xs) == [t |-> "list", v |-> xs]
\* truthiness of a JSON value: null, "" and [] are falsy
JsonTruthy(j) ==
  CASE j.t = "null" -> FALSE
    [] j.t = "str" -> j.v[1] /= <<>>
    [] OTHER -> j.v /= <<>>

\* What the GPU backend may cite: the page images and the PDF of the document
\* of this request (of the conversation's first document when the request
\* has none), the object of another program, an empty string, and a number.
CitedPool ==
  LET c == conv_or_default(request.conversation_id)
      d == IF doc_id /= PyNone THEN doc_id ELSE DocIdOf(0)
  IN {img_key(c, d, p) : p \in 1..MaxPages}
       \cup {pdf_key(c, d), ForeignKey, <<>>, PyInt}

\* The JSON bodies the GPU backend may answer with.
PagesUsedPool ==
  {JsonNull, JsonStr(<<"x">>)}
    \cup {JsonList(xs) : xs \in UNION {[1..n -> CitedPool] : n \in 0..MaxUsed}}
\* fields of the names enrichment writes, as the GPU backend may set them
\* itself: lists of one JSON object
DownstreamUrls == <<[downstream |-> "page_image_urls"]>>
DownstreamInfo == <<[downstream |-> "page_info"]>>
CarriedPool ==
  { <<>>, [page_image_urls |-> DownstreamUrls, page_info |-> DownstreamInfo] }
BodyPool ==
  { carried @@ b :
      carried \in CarriedPool,
      b \in {[ai |-> <<"answer">>]}
              \cup {[ai |-> <<"answer">>, pages_used |-> pu] : pu \in PagesUsedPool} }

PostOutcomes == {"ok", "transport_error", "http_error", "bad_json"}

\* A faulty variant: no except around the call, the failure goes up as it is
on_post_failure_unhandled(cause) == Raised(cause)

\* `except Exception as e: raise HTTPException(status_code=502, ...)`
on_post_failure(cause) == HTTPException(502, cause)

\* requests.post(url, json=payload, ...); raise_for_status(); resp.json();
\* any failure is `raise HTTPException(status_code=502, ...)`
GpuPost ==
  /\ pc = "call_gpu"
  /\ ~not_configured(GPU_BACKEND_URL)
  /\ \E outcome \in PostOutcomes :
       /\ outcome = "ok" \/ CanFail
       /\ faults' = faults_after(outcome = "ok")
       /\ calls' = Append(calls, [op |-> "post", ok |-> outcome = "ok",
                      arg |-> payload_of(request.conversation_id,
                                         request.human, doc_id)])
       /\ IF outcome = "ok"
            THEN /\ \E b \in BodyPool :
                      gpu' = [gpu EXCEPT !.answer = b, !.body = b,
                                         !.post = outcome]
                 /\ exc' = exc
                 /\ pc' = "enrich"
            ELSE /\ gpu' = [gpu EXCEPT !.post = outcome]
                 /\ exc' = on_post_failure(outcome)
                 /\ pc' = "respond_error"
  /\ UNCHANGED <<GPU_BACKEND_URL, bucket, written, request, tmp, ing, puts,
                 doc_id, response>>

\* pages_used = body.get("pages_used", []) or []
pages_used_of(body) ==
  IF "pages_used" \in DOMAIN body /\ JsonTruthy(body.pages_used)
    THEN body.pages_used ELSE JsonList(<<>>)

\* `if isinstance(pages_used, list):` signed_urls = []; the first loop starts
EnrichStart ==
  /\ pc = "enrich"
  /\ LET pu == pages_used_of(gpu.body)
     IN /\ gpu' = [gpu EXCEPT !.pages_used = pu, !.signed_urls = <<>>, !.k = 1]
        /\ pc' = IF pu.t = "list" THEN "sign" ELSE "return_body"
  /\ UNCHANGED <<GPU_BACKEND_URL, bucket, written, request, tmp, ing, puts,
                 exc, doc_id, calls, response, faults>>

\* `isinstance(k, str) and k`
is_key(k) == IsStr(k) /\ k /= <<>>

\* meta = blob.metadata or {}; the record appended to page_info_list
page_info_of(k, blob) ==
  LET meta == IF DOMAIN blob.metadata = {} THEN <<>> ELSE blob.metadata
  IN [page_key |-> k, pdf_name |-> Get(meta, "original_filename"),
      page_number |-> Get(meta, "page_number")]

\* A faulty variant: one try around the whole loop, a failure loses the list
urls_after_sign_reset(urls, k, ok) ==
  IF ok THEN Append(urls, signed_url(k)) ELSE <<>>

\* try: signed_urls.append(gcs_sign_only(k)) / except: log
urls_after_sign(urls, k, ok) == IF ok THEN Append(urls, signed_url(k)) ELSE urls

\* A faulty variant: one loop and one try for both, the record of a key is
\* appended only after its URL was signed
info_after_reload_if_signed(infos, k, ok) ==
  IF ok /\ \E j \in 1..Len(gpu.signed_urls) : gpu.signed_urls[j].key = k
    THEN Append(infos, page_info_of(k, bucket[k])) ELSE infos

\* A faulty variant: `meta = blob.metadata`, and None.get(...) raises
metadata_read_raises_on_none(blob) == DOMAIN blob.metadata = {}

\* `meta = blob.metadata or {}`; meta.get(...): nothing raises after the
\* reload, whatever the metadata holds
metadata_read_raises(blob) == FALSE

\* try: ... page_info_list.append({...}) / except: log
info_after_reload(infos, k, ok) ==
  IF ok /\ ~metadata_read_raises(bucket[k])
    THEN Append(infos, page_info_of(k, bucket[k])) ELSE infos

\* one turn of `for k in pages_used:` try: signed_urls.append(gcs_sign_only(k))
SignKey ==
  /\ pc = "sign"
  /\ gpu.k <= Len(gpu.pages_used.v)
  /\ LET k == gpu.pages_used.v[gpu.k]
     IN IF is_key(k)
          THEN \E ok \in BOOLEAN :
                 /\ ok \/ CanFail
                 /\ faults' = faults_after(ok)
                 /\ calls' = Append(calls, [op |-> "sign", ok |-> ok, arg |-> k])
                 /\ gpu' = [gpu EXCEPT
                              !.k = @ + 1,
                              !.signed_urls = urls_after_sign(@, k, ok)]
          ELSE /\ gpu' = [gpu EXCEPT !.k = @ + 1]
               /\ UNCHANGED <<calls, faults>>
  /\ UNCHANGED <<GPU_BACKEND_URL, bucket, written, pc, request, tmp, ing,
                 puts, exc, doc_id, response>>

\* body["page_image_urls"] = signed_urls; page_info_list = []
SignDone ==
  /\ pc = "sign"
  /\ gpu.k > Len(gpu.pages_used.v)
  /\ gpu' = [gpu EXCEPT !.body = SetItem(@, "page_image_urls", gpu.signed_urls),
                        !.page_info_list = <<>>, !.k = 1]
  /\ pc' = "meta"
  /\ UNCHANGED <<GPU_BACKEND_URL, bucket, written, request, tmp, ing, puts,
                 exc, doc_id, calls, response, faults>>

\* one turn of the second `for k in pages_used:` blob.reload() raises when
\* the object is not in the bucket, or when the bucket fails
MetaKey ==
  /\ pc = "meta"
  /\ gpu.k <= Len(gpu.pages_used.v)
  /\ LET k == gpu.pages_used.v[gpu.k]
     IN IF is_key(k)
          THEN \E ok \in BOOLEAN :
                 /\ ok => k \in DOMAIN bucket
                 /\ ok \/ k \notin DOMAIN bucket \/ CanFail
                 /\ faults' = faults_after(ok \/ k \notin DOMAIN bucket)
                 /\ calls' = Append(calls, [op |-> "reload", ok |-> ok, arg |-> k])
                 /\ gpu' = [gpu EXCEPT
                              !.k = @ + 1,
                              !.page_info_list = info_after_reload(@, k, ok)]
          ELSE /\ gpu' = [gpu EXCEPT !.k = @ + 1]
               /\ UNCHANGED <<calls, faults>>
  /\ UNCHANGED <<GPU_BACKEND_URL, bucket, written, pc, request, tmp, ing,
                 puts, exc, doc_id, response>>

\* body["page_info"] = page_info_list
MetaDone ==
  /\ pc = "meta"
  /\ gpu.k > Len(gpu.pages_used.v)
  /\ gpu' = [gpu EXCEPT !.body = SetItem(@, "page_info", gpu.page_info_list)]
  /\ pc' = "return_body"
  /\ UNCHANGED <<GPU_BACKEND_URL, bucket, written, request, tmp, ing, puts,
                 exc, doc_id, calls, response, faults>>

\* return body
ReturnBody ==
  /\ pc = "return_body"
  /\ response' = [status |-> 200, body |-> gpu.body]
  /\ pc' = "done"
  /\ UNCHANGED <<GPU_BACKEND_URL, bucket, written, request, tmp, ing, puts,
                 exc, doc_id, gpu, calls, faults>>

\* ------------------------------------------------------------ specification
Next ==
  \/ ChatReceive
  \/ TmpCreate
  \/ TmpWrite
  \/ ReadFile
  \/ UploadOriginal
  \/ RenderPages
  \/ UploadPageImage
  \/ OcrPage
  \/ UploadPageText
  \/ ReturnSummary
  \/ Cleanup
  \/ RespondError
  \/ CallGpuStub
  \/ GpuPost
  \/ EnrichStart
  \/ SignKey
  \/ SignDone
  \/ MetaKey
  \/ MetaDone
  \/ ReturnBody

Spec == Init /\ [][Next]_vars


\* ================================================================== claims
StartsWith(s, pre) == Len(s) >= Len(pre) /\ SubSeq(s, 1, Len(pre)) = pre
EndsWith(s, suf) ==
  Len(s) >= Len(suf) /\ SubSeq(s, Len(s) - Len(suf) + 1, Len(s)) = suf

\* process_pdf_to_gcs has returned its summary
IngestionReturned == ing.result /= NoResult
\* the puts of one kind, in order
PutsOf(kind) == SelectSeq(puts, LAMBDA c : c.kind = kind)
\* the put stored its object (the upload went through)
Stored(c) == c.outcome /= "upload_failed"
\* the number of pages of the uploaded PDF
PagesOf(raw) == Len(raw) - 1
\* key is pages/<conv>/<docid>/page_<p>.png
IsImageKeyOf(key, docid, p) ==
  /\ StartsWith(key, <<"p", "a", "g", "e", "s", "/">>)
  /\ EndsWith(key, <<"/">> \o docid \o <<"/", "p", "a", "g", "e", "_">>
                     \o str(p) \o <<".", "p", "n", "g">>)
\* key is text/<conv>/<docid>/page_<p>.txt
IsTextKeyOf(key, docid, p) ==
  /\ StartsWith(key, <<"t", "e", "x", "t", "/">>)
  /\ EndsWith(key, <<"/">> \o docid \o <<"/", "p", "a", "g", "e", "_">>
                     \o str(p) \o <<".", "t", "x", "t">>)

\* C1: when the ingestion of a non-empty document of N pages has returned,
\* it has made exactly N page-image uploads, page_1 .. page_N in this order
\* and all successful, and at most N page-text uploads, every key under the
\* one doc_id of the summary, and the summary says pages_count = N.
C1_UploadsMatchPages ==
  IngestionReturned =>
    LET n == PagesOf(ing.raw)
        d == ing.result.doc_id
        imgs == PutsOf("image")
        txts == PutsOf("text")
    IN /\ ing.raw /= <<>>
       /\ d \in DocIds
       /\ Len(imgs) = n
       /\ \A p \in 1..n :
            /\ imgs[p].outcome = "ok"
            /\ IsImageKeyOf(imgs[p].key, d, p)
            /\ imgs[p].key \in DOMAIN bucket
       /\ Len(txts) <= n
       /\ \A j \in 1..Len(txts) : IsTextKeyOf(txts[j].key, d, txts[j].page)
       /\ \A j1, j2 \in 1..Len(txts) : j1 /= j2 => txts[j1].page /= txts[j2].page
       /\ ing.result.pages_count = n

\* C1 witness: a two-page document is ingested, one of its text uploads fails.
C1_Witness ==
  /\ IngestionReturned
  /\ ing.result.pages_count = 2
  /\ Len(PutsOf("image")) = 2
  /\ \E j \in 1..Len(puts) : puts[j].kind = "text" /\ ~Stored(puts[j])

\* C2: once process_pdf_to_gcs has read an uploaded file of no bytes, the
\* request is failing with HTTP 400 and no put of any kind has been made, nor
\* is one made later; the caller gets the 400.
C2_EmptyRejectedBeforeAnyPut ==
  (request.pdf_file /\ request.content = <<>> /\ ing.doc_id /= PyNone) =>
    /\ exc.type = "HTTPException" /\ exc.status_code = 400
    /\ puts = <<>>
    /\ \A w \in written : w.ingestion /= ThisIngestion
    /\ ~IngestionReturned
    /\ pc \in {"finally", "respond_error", "done"}
    /\ pc = "done" => response.status = 400

\* C2 witness: an empty upload was answered with "File is empty."
C2_Witness ==
  /\ pc = "done"
  /\ request.pdf_file /\ request.content = <<>>
  /\ exc = HTTPException(400, "File is empty.")
  /\ response.status = 400

\* a put of the original document or of a page image that raised
RequiredPutFailed(c) == c.kind \in {"pdf", "image"} /\ c.outcome /= "ok"

\* C3: a failed upload of the original document or of a page image is the
\* last put of the request: the error is in flight (and reaches the caller
\* as it is), no summary is returned and the GPU backend is not called.
C3_RequiredUploadFailureAborts ==
  \A j \in 1..Len(puts) :
    RequiredPutFailed(puts[j]) =>
      /\ j = Len(puts)
      /\ exc.type = "Exception"
      /\ ~IngestionReturned
      /\ doc_id = PyNone
      /\ calls = <<>>
      /\ pc \in {"finally", "respond_error", "done"}
      /\ pc = "done" => response.status = 500 /\ response.body.detail = exc.detail

\* C3 witness: the image of page 1 of a two-page document failed to upload
\* and the request has ended.
C3_Witness ==
  /\ pc = "done"
  /\ PagesOf(ing.raw) = 2
  /\ \E j \in 1..Len(puts) :
       puts[j].kind = "image" /\ puts[j].page = 1 /\ puts[j].outcome /= "ok"

\* the request is past process_pdf_to_gcs
IngestionOver ==
  pc \in {"finally", "call_gpu", "enrich", "sign", "meta", "return_body",
          "respond_error", "done"}

\* C4: when OCR failed on page k, the image of page k is uploaded, the text
\* upload of page k is attempted with the empty string as content (and that
\* is what the bucket holds when it went through), and the failure does not
\* end the ingestion: unless a required upload fails, all N pages are
\* processed and the summary has the full page count.
C4_OcrFailureIsNotFatal ==
  \A k \in ing.ocr_failed :
    /\ \E j \in 1..Len(puts) :
         puts[j].kind = "image" /\ puts[j].page = k /\ puts[j].outcome = "ok"
    /\ \/ pc = "put_txt" /\ ing.i = k /\ ing.ocr_text = <<>>
       \/ \E j \in 1..Len(puts) :
            /\ puts[j].kind = "text" /\ puts[j].page = k /\ puts[j].data = <<>>
            /\ Stored(puts[j]) => bucket[puts[j].key].data = <<>>
    /\ (IngestionOver /\ \A j \in 1..Len(puts) : ~RequiredPutFailed(puts[j])) =>
         /\ IngestionReturned
         /\ ing.result.pages_count = PagesOf(ing.raw)
         /\ Len(PutsOf("image")) = PagesOf(ing.raw)
         /\ Len(PutsOf("text")) = PagesOf(ing.raw)

\* C4 witness: OCR failed on page 1 of 2, the empty text was stored, and the
\* ingestion returned 2 pages.
C4_Witness ==
  /\ ing.ocr_failed = {1}
  /\ IngestionReturned /\ ing.result.pages_count = 2
  /\ \E j \in 1..Len(puts) :
       puts[j].kind = "text" /\ puts[j].page = 1 /\ puts[j].outcome = "ok"


\* C5 (as the specification states it): a rendering failure on bytes that are
\* no PDF reaches the caller as a client error, a 4xx status.
C5_RenderFailureIsClientError ==
  (pc = "done" /\ exc = Raised("convert_from_bytes")) =>
    response.status \in 400..499

\* the endpoint is not configured: the variable is unset or empty
Unconfigured == GPU_BACKEND_URL \in {PyNone, <<>>}

\* C6: with no endpoint configured call_gpu_backend makes no outbound call
\* (no POST, no sign, no metadata read) and the request, unless ingestion
\* failed, is answered with the fixed stub and the request's conversation id.
C6_StubWithoutIO ==
  Unconfigured =>
    /\ calls = <<>>
    /\ pc \notin {"enrich", "sign", "meta", "return_body"}
    /\ (pc = "done" /\ exc = NoExc) =>
         /\ response.status = 200
         /\ response.body = [ai |-> StubAnswer,
                             conversation_id |-> request.conversation_id]

\* C6 witness: GPU_BACKEND_URL is the empty string, a document was ingested,
\* the stub came back.
C6_Witness ==
  /\ pc = "done"
  /\ GPU_BACKEND_URL = <<>>
  /\ doc_id /= PyNone
  /\ response.status = 200
  /\ response.body.ai = StubAnswer

\* C7: when the POST to the configured endpoint failed (transport, status or
\* body), the request ends with HTTP 502 carrying the cause, and with nothing
\* else: no stub, no answer.
C7_DownstreamFailureIs502 ==
  gpu.post \notin {"none", "ok"} =>
    /\ ~Unconfigured
    /\ exc = HTTPException(502, gpu.post)
    /\ pc \in {"respond_error", "done"}
    /\ pc = "done" =>
         response = [status |-> 502, body |-> [detail |-> gpu.post]]

\* C7 witness: the GPU backend answered with an error status after a document
\* was ingested.
C7_Witness ==
  /\ pc = "done"
  /\ gpu.post = "http_error"
  /\ doc_id /= PyNone
  /\ response.status = 502

\* the items of pages_used that are keys: non-empty strings
KeysUsed == SelectSeq(gpu.pages_used.v, LAMBDA k : k \notin {<<>>, PyInt, PyNone})
SignCalls == SelectSeq(calls, LAMBDA c : c.op = "sign")
ReloadCalls == SelectSeq(calls, LAMBDA c : c.op = "reload")
SignedOk == SelectSeq(calls, LAMBDA c : c.op = "sign" /\ c.ok)
ReloadedOk == SelectSeq(calls, LAMBDA c : c.op = "reload" /\ c.ok)
Args(cs) == [j \in 1..Len(cs) |-> cs[j].arg]
\* the enrichment of a list pages_used is complete
Enriched ==
  /\ pc \in {"return_body", "done"}
  /\ gpu.post = "ok"
  /\ gpu.pages_used.t = "list"

\* C8: after a successful POST no enrichment failure raises; with pages_used
\* a list, every key is signed and read once, in order, whatever failed
\* before; page_image_urls is the signed URLs of the keys whose signing went
\* well, in that order, page_info the records of the keys whose metadata
\* read went well, in that order; the caller gets 200 with the answer.
C8_EnrichmentIsBestEffort ==
  /\ gpu.post = "ok" => exc = NoExc /\ pc /= "respond_error"
  /\ Enriched =>
       /\ Args(SignCalls) = KeysUsed
       /\ Args(ReloadCalls) = KeysUsed
       /\ [j \in 1..Len(gpu.body.page_image_urls) |->
             gpu.body.page_image_urls[j].key] = Args(SignedOk)
       /\ [j \in 1..Len(gpu.body.page_info) |->
             gpu.body.page_info[j].page_key] = Args(ReloadedOk)
       /\ pc = "done" =>
            /\ response.status = 200
            /\ response.body = gpu.body
            /\ response.body.ai = <<"answer">>

\* C8 witness: two keys; signing failed for the first only, the metadata read
\* failed for the second only.
C8_Witness ==
  /\ pc = "done" /\ Enriched
  /\ Len(KeysUsed) = 2 /\ KeysUsed[1] /= KeysUsed[2]
  /\ ~SignCalls[1].ok /\ SignCalls[2].ok
  /\ ReloadCalls[1].ok /\ ~ReloadCalls[2].ok
  /\ KeysUsed[2] \in DOMAIN bucket
  /\ Len(response.body.page_image_urls) = 1
  /\ Len(response.body.page_info) = 1

\* the one ingestion that wrote key k as a page image
SoleImageWriters(k) ==
  {w \in written :
     /\ w.key = k /\ w.kind = "image"
     /\ \A w2 \in written : w2.key = k => w2.ingestion = w.ingestion}

\* C9: every page_info record of a key that one ingestion wrote as a page
\* image carries that key, the page's 1-based number as a string and the
\* original filename of that ingestion; and with pages_used the keys of
\* pages 1 and 2 of the document just ingested and no failure, the records
\* are those of "1" and "2" in this order and page_image_urls has 2 entries.
C9_KeysResolveToTheirPage ==
  Enriched =>
    /\ \A j \in 1..Len(gpu.body.page_info) :
         LET r == gpu.body.page_info[j]
         IN \A w \in SoleImageWriters(r.page_key) :
              /\ r.page_number = str(w.page)
              /\ w.page >= 1
              /\ r.pdf_name = w.name
    /\ ( /\ doc_id /= PyNone
         /\ ing.result.pages_count >= 2
         /\ gpu.pages_used.v =
              << <<"p", "a", "g", "e", "s", "/">> \o ing.conv \o <<"/">> \o doc_id
                   \o <<"/", "p", "a", "g", "e", "_", "1", ".", "p", "n", "g">>,
                 <<"p", "a", "g", "e", "s", "/">> \o ing.conv \o <<"/">> \o doc_id
                   \o <<"/", "p", "a", "g", "e", "_", "2", ".", "p", "n", "g">> >>
         /\ \A j \in 1..Len(calls) : calls[j].ok ) =>
         /\ Len(gpu.body.page_image_urls) = 2
         /\ Len(gpu.body.page_info) = 2
         /\ \A j \in 1..2 :
              /\ gpu.body.page_info[j].page_key = gpu.pages_used.v[j]
              /\ gpu.body.page_info[j].pdf_name = request.original_filename
         /\ gpu.body.page_info[1].page_number = <<"1">>
         /\ gpu.body.page_info[2].page_number = <<"2">>

\* C9 witness: pages 1 and 2 of the document just ingested are resolved, to
\* "1" and "2" and the upload's filename.
C9_Witness ==
  /\ pc = "done" /\ Enriched
  /\ doc_id /= PyNone
  /\ Len(response.body.page_info) = 2
  /\ response.body.page_info[1].page_number = <<"1">>
  /\ response.body.page_info[2].page_number = <<"2">>
  /\ response.body.page_info[1].pdf_name = request.original_filename
  /\ SoleImageWriters(response.body.page_info[2].page_key) /= {}
  /\ Len(response.body.page_image_urls) = 2

\* w1 and w2 are the same logical artifact
SameArtifact(w1, w2) ==
  w1.ingestion = w2.ingestion /\ w1.kind = w2.kind /\ w1.page = w2.page

\* C10: the key of an artifact is determined by (kind, conversation id,
\* doc_id, page), and two artifacts stored under one key are the same
\* artifact, unless they come from two ingestions that drew the same doc_id.
C10_KeysDoNotCollide ==
  \A w1, w2 \in written :
    /\ (w1.kind = w2.kind /\ w1.conv = w2.conv /\ w1.doc_id = w2.doc_id
          /\ w1.page = w2.page) => w1.key = w2.key
    /\ (w1.key = w2.key
          /\ (w1.ingestion /= w2.ingestion => w1.doc_id /= w2.doc_id)) =>
         SameArtifact(w1, w2)

\* C10 witness: two ingestions of identically named files with different
\* doc_ids, both stored page 1; the conversation id of the second is the
\* first's followed by '/' and the first's doc_id, so the second key lies
\* under the first document's prefix.
C10_Witness ==
  \E w1, w2 \in written :
    /\ w1.ingestion /= w2.ingestion
    /\ w1.doc_id /= w2.doc_id
    /\ w1.name = w2.name
    /\ w2.conv = w1.conv \o <<"/">> \o w1.doc_id
    /\ w1.kind = "image" /\ w2.kind = "image" /\ w1.page = 1 /\ w2.page = 1
    /\ w1.key /= w2.key
    /\ StartsWith(w2.key, <<"p", "a", "g", "e", "s", "/">> \o w1.conv
                            \o <<"/">> \o w1.doc_id \o <<"/">>)

\* the fields enrichment writes
EnrichmentFields == {"page_image_urls", "page_info"}
\* call_gpu_backend has returned the body of a successful POST
Answered == pc = "done" /\ gpu.post = "ok"

\* C11 as stated: the response carries every field of the downstream body
\* with the value the downstream service gave it, and every other field of
\* the response is page_image_urls or page_info.
C11_DownstreamFieldsUnchanged ==
  Answered =>
    /\ \A f \in DOMAIN gpu.answer :
         f \in DOMAIN response.body /\ response.body[f] = gpu.answer[f]
    /\ DOMAIN response.body \subseteq DOMAIN gpu.answer \cup EnrichmentFields

\* C11 amended: every field of the downstream body other than page_image_urls
\* and page_info is in the response with the downstream value, and the
\* response has no field beyond those of the downstream body and these two;
\* when pages_used is missing, falsy or a list the two fields are the lists
\* enrichment built, also in place of a downstream field of the same name;
\* when pages_used is anything else the body is returned as it was received.
C11_OnlyEnrichmentFieldsWritten ==
  Answered =>
    /\ \A f \in DOMAIN gpu.answer \ EnrichmentFields :
         f \in DOMAIN response.body /\ response.body[f] = gpu.answer[f]
    /\ DOMAIN response.body \subseteq DOMAIN gpu.answer \cup EnrichmentFields
    /\ IF gpu.pages_used.t = "list"
         THEN /\ EnrichmentFields \subseteq DOMAIN response.body
              /\ response.body.page_image_urls = gpu.signed_urls
              /\ response.body.page_info = gpu.page_info_list
         ELSE response.body = gpu.answer

\* C11 witness: the downstream body carried both fields and a list
\* pages_used with a key; the response keeps ai and pages_used, and the two
\* fields are no longer what the downstream service set.
C11_Witness ==
  /\ Answered
  /\ EnrichmentFields \subseteq DOMAIN gpu.answer
  /\ "pages_used" \in DOMAIN gpu.answer
  /\ gpu.pages_used.t = "list" /\ Len(gpu.pages_used.v) >= 1
  /\ response.body.ai = gpu.answer.ai
  /\ response.body.pages_used = gpu.answer.pages_used
  /\ Len(response.body.page_image_urls) = 1
  /\ response.body.page_image_urls[1] /= gpu.answer.page_image_urls[1]
  /\ response.body.page_info /= gpu.answer.page_info

\* a put of a page text that raised
TextPutFailed(c) == c.kind = "text" /\ c.outcome /= "ok"

\* C12: a failed upload of the text of page k raises nothing out of the
\* ingestion: the next put is the image of page k+1 (it is the next step when
\* not made yet), after the last page the summary is next; and, unless a
\* required upload fails, the puts of the request are the original, then
\* image and text of every page 1..N in order, and the summary has the full
\* page count.
C12_TextUploadFailureIsCaught ==
  \A j \in 1..Len(puts) :
    TextPutFailed(puts[j]) =>
      LET k == puts[j].page
          n == PagesOf(ing.raw)
      IN /\ exc.detail /= "gcs_put_and_sign text"
         /\ j < Len(puts) =>
              /\ k < n
              /\ puts[j + 1].kind = "image" /\ puts[j + 1].page = k + 1
         /\ (j = Len(puts) /\ k < n) =>
              pc = "put_img" /\ ing.i = k + 1 /\ exc = NoExc
         /\ (j = Len(puts) /\ k = n) =>
              /\ pc = "summary" \/ IngestionReturned
              /\ ~IngestionOver => exc = NoExc
         /\ (IngestionOver /\ \A i \in 1..Len(puts) : ~RequiredPutFailed(puts[i])) =>
              /\ IngestionReturned
              /\ ing.result.pages_count = n
              /\ Len(puts) = 1 + 2 * n
              /\ \A p \in 1..n :
                   /\ puts[2 * p].kind = "image" /\ puts[2 * p].page = p
                   /\ puts[2 * p + 1].kind = "text" /\ puts[2 * p + 1].page = p

\* C12 witness: the text upload of page 1 of 2 failed; image and text of
\* page 2 were uploaded all the same and the summary says 2 pages.
C12_Witness ==
  /\ IngestionReturned /\ ing.result.pages_count = 2
  /\ Len(puts) = 5
  /\ TextPutFailed(puts[3]) /\ puts[3].page = 1
  /\ puts[4].kind = "image" /\ puts[4].page = 2 /\ puts[4].outcome = "ok"
  /\ puts[5].kind = "text" /\ puts[5].page = 2 /\ puts[5].outcome = "ok"

\* C13: the puts of a request are, in this order, the original document,
\* then image of page 1, text of page 1, image of page 2, text of page 2, ...
\* (the put at position 2p is the image of page p, the one at 2p+1 its text,
\* each under its own key); a put of a page comes only after the put of the
\* original went well, the image of page p+1 only after the text put of page
\* p was made, and no put follows a failed image put.
C13_PutsInPageOrder ==
  /\ puts /= <<>> => Len(puts) <= 1 + 2 * PagesOf(ing.raw)
  /\ \A j \in 1..Len(puts) :
       IF j = 1
         THEN puts[j].kind = "pdf" /\ puts[j].key = pdf_key(ing.conv, ing.doc_id)
         ELSE /\ puts[1].kind = "pdf" /\ puts[1].outcome = "ok"
              /\ puts[1].key \in DOMAIN bucket
              /\ puts[j].page = j \div 2
              /\ puts[j].page \in 1..PagesOf(ing.raw)
              /\ puts[j].kind = (IF j % 2 = 0 THEN "image" ELSE "text")
              /\ IF j % 2 = 0
                   THEN IsImageKeyOf(puts[j].key, ing.doc_id, j \div 2)
                   ELSE IsTextKeyOf(puts[j].key, ing.doc_id, j \div 2)
              /\ puts[j - 1].kind = "image" => puts[j - 1].outcome = "ok"
  /\ \A j1, j2 \in 1..Len(puts) :
       (j1 < j2 /\ puts[j1].kind /= "pdf") => puts[j1].page <= puts[j2].page

\* C13 witness: a two-page document, five puts, the text put of page 1
\* failed without being stored and page 2 followed.
C13_Witness ==
  /\ Len(puts) = 5
  /\ [j \in 1..5 |-> puts[j].kind] = <<"pdf", "image", "text", "image", "text">>
  /\ [j \in 1..5 |-> puts[j].page] = <<0, 1, 1, 2, 2>>
  /\ puts[3].outcome = "upload_failed"
  /\ puts[5].outcome = "ok"

\* the number of calls of cs[1..j] that went well
RECURSIVE OkUpTo(_, _)
OkUpTo(cs, j) == IF j = 0 THEN 0 ELSE OkUpTo(cs, j - 1) + (IF cs[j].ok THEN 1 ELSE 0)

\* C14: with pages_used a list, both page_image_urls and page_info are set;
\* every key is signed once and read once, all signings before all reads;
\* the j-th key has its record in page_info exactly when its metadata read
\* went well, whether or not its signing did, and its URL in
\* page_image_urls exactly when its signing went well, whether or not its
\* metadata read did.
C14_PassesAreIndependent ==
  Enriched =>
    /\ EnrichmentFields \subseteq DOMAIN gpu.body
    /\ Len(SignCalls) = Len(KeysUsed) /\ Len(ReloadCalls) = Len(KeysUsed)
    /\ \A a, b \in 1..Len(calls) :
         (calls[a].op = "sign" /\ calls[b].op = "reload") => a < b
    /\ Len(gpu.body.page_image_urls) = OkUpTo(SignCalls, Len(SignCalls))
    /\ Len(gpu.body.page_info) = OkUpTo(ReloadCalls, Len(ReloadCalls))
    /\ \A j \in 1..Len(KeysUsed) :
         /\ SignCalls[j].arg = KeysUsed[j] /\ ReloadCalls[j].arg = KeysUsed[j]
         /\ SignCalls[j].ok =>
              gpu.body.page_image_urls[OkUpTo(SignCalls, j)] = signed_url(KeysUsed[j])
         /\ ReloadCalls[j].ok =>
              /\ KeysUsed[j] \in DOMAIN bucket
              /\ gpu.body.page_info[OkUpTo(ReloadCalls, j)].page_key = KeysUsed[j]

\* C14 witness: two stored keys; the signing of the first failed and its
\* record is in page_info, the metadata read of the second failed and its
\* URL is in page_image_urls.
C14_Witness ==
  /\ Enriched /\ pc = "done"
  /\ Len(KeysUsed) = 2
  /\ \A j \in 1..2 : KeysUsed[j] \in DOMAIN bucket
  /\ [j \in 1..2 |-> SignCalls[j].ok] = <<FALSE, TRUE>>
  /\ [j \in 1..2 |-> ReloadCalls[j].ok] = <<TRUE, FALSE>>
  /\ response.body.page_info = <<page_info_of(KeysUsed[1], bucket[KeysUsed[1]])>>
  /\ response.body.page_image_urls = <<signed_url(KeysUsed[2])>>

\* the request carried a document and is past the finally block of chat
PastCleanup ==
  /\ request.pdf_file
  /\ pc \in {"call_gpu", "enrich", "sign", "meta", "return_body",
             "respond_error", "done"}

\* C15 as stated: when a request that carried a document has ended, on
\* whatever path, its temporary file does not exist, and the caller got the
\* outcome of the try block or of call_gpu_backend, never one of the cleanup.
C15_TempFileGoneOnEveryPath ==
  (pc = "done" /\ request.pdf_file) =>
    /\ ~tmp.exists
    /\ IF IngestionReturned
         THEN response.status \in {200, 502}
         ELSE response.status = status_of(exc)

\* C15 amended: on every path of a request with a document the finally block has
\* called os.remove: the temporary file is gone when the call went well, it
\* is still there only when os.remove itself failed, and it never existed
\* when its creation failed; the failure of the cleanup changes nothing of
\* the outcome: the exception of the try block reaches the caller as it is,
\* and after a returned ingestion chat goes on to call_gpu_backend.
C15_TempFileRemoved ==
  PastCleanup =>
    /\ tmp.remove /= "none"
    /\ tmp.remove = "removed" => tmp.bound /\ ~tmp.exists
    /\ tmp.exists <=> tmp.remove = "failed"
    /\ tmp.remove = "unbound" <=> exc = Raised("NamedTemporaryFile")
    /\ IF IngestionReturned
         THEN /\ doc_id = ing.result.doc_id
              /\ pc = "respond_error" => exc.status_code = 502
              /\ pc = "done" => response.status \in {200, 502}
         ELSE /\ exc /= NoExc
              /\ exc.detail \in {"NamedTemporaryFile", "tmp.write",
                                 "Could not read file", "File is empty.",
                                 "gcs_put_and_sign pdf", "convert_from_bytes",
                                 "gcs_put_and_sign image"}
              /\ pc \in {"respond_error", "done"}
              /\ pc = "done" =>
                   /\ response.status = status_of(exc)
                   /\ response.body.detail = exc.detail

\* C15 witness: writing the temporary file failed; the file was removed and
\* the caller got the error of the write.
C15_Witness ==
  /\ pc = "done"
  /\ exc = Raised("tmp.write")
  /\ tmp.bound /\ tmp.remove = "removed" /\ ~tmp.exists
  /\ response.status = 500

\* the artifacts this request stored
StoredNow == {w \in written : w.ingestion = ThisIngestion}

\* C16 (as stated): the conversation id sent to the GPU backend, and the one
\* the stub answer echoes, is the conversation id in the keys and in the
\* metadata of the artifacts the same request stored, also when the request
\* gave a blank one.
C16_PlaceholderIsConsistent ==
  \A w \in StoredNow :
    /\ bucket[w.key].metadata.conversation_id = w.conv
    /\ \A j \in 1..Len(calls) :
         calls[j].op = "post" => calls[j].arg.conversation_id = w.conv
    /\ (pc = "done" /\ IngestionReturned /\ not_configured(GPU_BACKEND_URL)) =>
         response.body.conversation_id = w.conv

\* the POSTs to the GPU backend
PostCalls == SelectSeq(calls, LAMBDA c : c.op = "post")

\* C17: the GPU backend is called at most once per request.  With a
\* document, the call comes after process_pdf_to_gcs returned its summary
\* and after all its puts, and the payload's doc_id is the doc_id of the
\* summary, of every artifact the request stored and of every key it put.
\* Without a document the request puts and stores nothing and the payload
\* has no doc_id.
C17_DownstreamAfterIngestion ==
  /\ Len(PostCalls) <= 1
  /\ \A j \in 1..Len(PostCalls) :
       LET payload == PostCalls[j].arg
       IN IF request.pdf_file
            THEN /\ IngestionReturned
                 /\ "doc_id" \in DOMAIN payload
                 /\ payload.doc_id = ing.result.doc_id
                 /\ Len(puts) = 1 + 2 * ing.result.pages_count
                 /\ \A w \in StoredNow : w.doc_id = payload.doc_id
                 /\ \A i \in 1..Len(puts) :
                      /\ puts[i].kind = "pdf" =>
                           puts[i].key = pdf_key(ing.conv, payload.doc_id)
                      /\ puts[i].kind = "image" =>
                           IsImageKeyOf(puts[i].key, payload.doc_id, puts[i].page)
                      /\ puts[i].kind = "text" =>
                           IsTextKeyOf(puts[i].key, payload.doc_id, puts[i].page)
            ELSE /\ DOMAIN payload = {"conversation_id", "human"}
                 /\ doc_id = PyNone
  /\ (pc /= "idle" /\ ~request.pdf_file) => puts = <<>> /\ StoredNow = {}
  /\ (request.pdf_file /\ ~IngestionReturned) => PostCalls = <<>>

\* C17 witness: a two-page document was stored and the GPU backend was then
\* called once, with the doc_id of the stored artifacts.
C17_Witness ==
  /\ pc = "done" /\ request.pdf_file
  /\ Len(PostCalls) = 1
  /\ Cardinality(StoredNow) = 5
  /\ \A w \in StoredNow : w.doc_id = PostCalls[1].arg.doc_id

\* the object under key k is an artifact of kind `kind`, by its key prefix
IsPageImage(k) == StartsWith(k, <<"p", "a", "g", "e", "s", "/">>)
IsPageText(k) == StartsWith(k, <<"t", "e", "x", "t", "/">>)
IsOriginal(k) == StartsWith(k, <<"p", "d", "f", "s", "/">>)

\* C18: for every page text in the bucket, source_image_key is the key of
\* a page image in the bucket with the same conversation_id, doc_id and
\* page_number, and every ingestion that stored the text had stored that
\* image before, for the same page; for every page image and page text in
\* the bucket, source_pdf_key is the key of an original in the bucket with
\* the same doc_id, stored by every ingestion that stored the page artifact.
C18_ProvenanceHolds ==
  \A k \in DOMAIN bucket :
    LET m == bucket[k].metadata
    IN /\ IsPageText(k) =>
            /\ m.source_image_key \in DOMAIN bucket
            /\ IsPageImage(m.source_image_key)
            /\ LET im == bucket[m.source_image_key].metadata
               IN /\ im.conversation_id = m.conversation_id
                  /\ im.doc_id = m.doc_id
                  /\ im.page_number = m.page_number
                  /\ im.source_pdf_key = m.source_pdf_key
            /\ \A wt \in written :
                 wt.key = k =>
                   /\ wt.kind = "text" /\ m.page_number = str(wt.page)
                   /\ \E wi \in written :
                        /\ wi.key = m.source_image_key /\ wi.kind = "image"
                        /\ wi.ingestion = wt.ingestion /\ wi.page = wt.page
                        /\ wi.conv = wt.conv /\ wi.doc_id = wt.doc_id
       /\ (IsPageText(k) \/ IsPageImage(k)) =>
            /\ m.source_pdf_key \in DOMAIN bucket
            /\ IsOriginal(m.source_pdf_key)
            /\ bucket[m.source_pdf_key].metadata.doc_id = m.doc_id
            /\ bucket[m.source_pdf_key].metadata.conversation_id = m.conversation_id
            /\ \A w \in written :
                 w.key = k =>
                   \E wp \in written :
                     /\ wp.key = m.source_pdf_key /\ wp.kind = "pdf"
                     /\ wp.ingestion = w.ingestion /\ wp.doc_id = w.doc_id

\* C18 witness: this request stored the text of page 2 although its upload
\* call raised (the URL could not be signed), under a doc_id an earlier
\* ingestion had used; image and original are in the bucket.
C18_Witness ==
  \E j \in 1..Len(puts) :
    /\ puts[j].kind = "text" /\ puts[j].page = 2 /\ puts[j].outcome = "sign_failed"
    /\ puts[j].key \in DOMAIN bucket
    /\ bucket[puts[j].key].metadata.source_image_key \in DOMAIN bucket
    /\ bucket[puts[j].key].metadata.source_pdf_key \in DOMAIN bucket
    /\ \E w \in written : w.ingestion /= ThisIngestion /\ w.doc_id = ing.doc_id

\* the value meta.get(f) gives for the stored metadata of key k
StoredField(k, f) ==
  IF f \in DOMAIN bucket[k].metadata THEN bucket[k].metadata[f] ELSE PyNone

\* C19: every key whose blob.reload() went well has its record in
\* page_info, at the position its order among the keys read well gives it,
\* whatever its metadata holds: pdf_name and page_number are the stored
\* original_filename and page_number, None for a field the metadata lacks
\* and for an object without metadata; nothing is raised.
C19_MissingMetadataStillRecorded ==
  Enriched =>
    /\ exc = NoExc
    /\ Len(gpu.body.page_info) = OkUpTo(ReloadCalls, Len(ReloadCalls))
    /\ \A j \in 1..Len(ReloadCalls) :
         ReloadCalls[j].ok =>
           LET k == ReloadCalls[j].arg
               r == gpu.body.page_info[OkUpTo(ReloadCalls, j)]
           IN /\ DOMAIN r = {"page_key", "pdf_name", "page_number"}
              /\ r.page_key = k
              /\ r.pdf_name = StoredField(k, "original_filename")
              /\ r.page_number = StoredField(k, "page_number")

\* C19 witness: the keys read were an object without metadata and the
\* original of the document (no page_number): both have their record, in
\* this order, with None for what is missing.
C19_Witness ==
  /\ Enriched /\ pc = "done"
  /\ Len(ReloadCalls) = 2 /\ ReloadCalls[1].ok /\ ReloadCalls[2].ok
  /\ ReloadCalls[1].arg = ForeignKey
  /\ IsOriginal(ReloadCalls[2].arg)
  /\ response.body.page_info =
       << [page_key |-> ForeignKey, pdf_name |-> PyNone, page_number |-> PyNone],
          [page_key |-> ReloadCalls[2].arg, pdf_name |-> request.original_filename,
           page_number |-> PyNone] >>

====
